---- MODULE Spec2Model ----
(***************************************************************************)
(* Model of sverchok's update-event centralisation (core/events.py):       *)
(* Blender events are collected into an EventsWave; when the wave ends     *)
(* CurrentEvents.handle_new_event converts it to Sverchok events, updates  *)
(* the reconstruction (shadow) of the node tree, redraws and updates the   *)
(* nodes, and installs a fresh wave.                                       *)
(***************************************************************************)
EXTENDS Integers, Sequences, FiniteSets, TLC

\* ------------------------------------------------------------------ bounds

\* Longest wave the host is allowed to build (events kept in events_wave).
MaxWave == 3

\* ------------------------------------------------------------ universe

None == "None"

\* Identities of the node trees (NodeTree.tree_id) and nodes (node_id).
Trees == {"t1", "t2"}

Nodes == {"n1", "n2", "n3"}

\* node.id_data: the tree a node lives in.
TreeOf(n) == IF n = "n3" THEN "t2" ELSE "t1"

\* Nodes the host reports events about.
EventNodes == {"n1", "n3"}

NodesOfTree(t) == {n \in Nodes : TreeOf(n) = t}

\* ------------------------------------------------------ event kinds

BlenderEventsTypes ==
    {"tree_update", "monad_tree_update", "node_update", "add_node", "copy_node",
     "free_node", "add_link_to_node", "node_property_update", "undo", "frame_change"}

SverchokEventsTypes ==
    {"add_node", "copy_node", "free_node", "node_property_update",
     "node_link_update", "undo", "undefined", "frame_change"}

EVENT_CONVERSION(type) ==
    CASE type = "tree_update" -> "undefined"
      [] type = "monad_tree_update" -> "undefined"
      [] type = "node_update" -> "undefined"
      [] type = "add_node" -> "add_node"
      [] type = "copy_node" -> "copy_node"
      [] type = "free_node" -> "free_node"
      [] type = "add_link_to_node" -> "node_link_update"
      [] type = "node_property_update" -> "node_property_update"
      [] type = "undo" -> "undo"
      [] type = "frame_change" -> "frame_change"

\* The keys of the IS_WAVE_END table (every value in it is True).
IS_WAVE_END_WithoutUndo ==
    {"tree_update", "node_property_update", "monad_tree_update", "frame_change"}

IS_WAVE_END_WithAddNode ==
    {"tree_update", "node_property_update", "monad_tree_update", "undo", "frame_change",
     "add_node"}

IS_WAVE_END_WithoutPropertyUpdate ==
    {"tree_update", "monad_tree_update", "undo", "frame_change"}

IS_WAVE_END ==
    {"tree_update", "node_property_update", "monad_tree_update", "undo", "frame_change"}

\* ------------------------------------------------------ event records

\* BlenderEvent(type, tree, node, link, update_function, function_arguments)
BlenderEvent(type, tree, node, f, args) ==
    [type |-> type, tree |-> tree, node |-> node, link |-> None,
     update_function |-> f, function_arguments |-> args]

property_update_WithoutArguments(node, call_function) ==
    BlenderEvent("node_property_update", TreeOf(node), node, call_function, <<>>)

\* The event built by the update callback of a node property.
property_update(node, call_function) ==
    BlenderEvent("node_property_update", TreeOf(node), node, call_function,
                 <<node, "context">>)

\* BlenderEvent.is_wave_end
is_wave_end(ev) == ev.type \in IS_WAVE_END

\* BlenderEvent.convert_to_sverchok_event
convert_to_sverchok_event(ev) ==
    [type |-> EVENT_CONVERSION(ev.type), tree |-> ev.tree, node |-> ev.node,
     link |-> ev.link, update_function |-> ev.update_function,
     function_arguments |-> ev.function_arguments]

\* ------------------------------------------------------------ EventsWave

add_event_Unfiltered(wave, bl_event) == Append(wave, bl_event)

add_event_KeepLast(wave, bl_event) ==
    IF bl_event.type = "node_update" THEN wave ELSE <<bl_event>>

\* EventsWave.add_event
add_event(wave, bl_event) ==
    IF bl_event.type = "node_update" THEN wave ELSE Append(wave, bl_event)

is_end_NonEmpty(wave) == Len(wave) > 0

is_end_ByFirstEvent(wave) == Len(wave) > 0 /\ is_wave_end(wave[1])

\* EventsWave.is_end
is_end(wave) == Len(wave) > 0 /\ is_wave_end(wave[Len(wave)])

\* ------------------------------------------------- the host's node trees

\* Links the host can draw: <<from_node, to_node>>, from the output socket
\* of the first node to the input socket of the second.
LinkCandidates == {<<"n1", "n2">>}

\* A node tree of bpy.data.node_groups; a removed tree keeps no content.
RemovedTree == [exists |-> FALSE, nodes |-> {}, links |-> {}]

\* The trees the host can hold under each identity: t1 is edited and removed
\* by the user, t2 is left alone.
LiveTrees(t) ==
    IF t = "t1"
    THEN {RemovedTree,
          [exists |-> TRUE, nodes |-> {"n1"}, links |-> {}],
          [exists |-> TRUE, nodes |-> {"n1", "n2"}, links |-> LinkCandidates]}
    ELSE {[exists |-> TRUE, nodes |-> NodesOfTree(t), links |-> {}]}

WellFormedTree(g) == \A l \in g.links : l[1] \in g.nodes /\ l[2] \in g.nodes

\* node_id: the stored n_id of the node, a string.
node_id(n) == n

\* socket_id: str(hash(node.node_id + identifier)), kept as the hashed pair.
socket_id(n, identifier) == <<node_id(n), identifier>>

\* link.from_socket.socket_id + link.to_socket.socket_id
link_id(link) == socket_id(link[1], "out") \o socket_id(link[2], "in")

\* ------------------------------------------------- SvTree (the shadow)

EmptyMap == [x \in {} |-> None]

MapPut(f, k, v) == [x \in (DOMAIN f) \cup {k} |-> IF x = k THEN v ELSE f[x]]

\* SvTree.__init__
SvTree(tree_id) == [id |-> tree_id, nodes |-> EmptyMap, links |-> EmptyMap]

\* SvNode.__init__
SvNode(id, name) == [id |-> id, name |-> name, inputs |-> {}, outputs |-> {}]

\* SvLink
SvLink(id, from_node, to_node) == [id |-> id, from_node |-> from_node, to_node |-> to_node]

\* NodesCollection.add
NodesCollection_add(sv_tree, node) ==
    [sv_tree EXCEPT !.nodes = MapPut(@, node_id(node), SvNode(node_id(node), node))]

LinksCollection_add_KeyedByCount(sv_tree, link) ==
    LET id == link_id(link)
        from_id == node_id(link[1])
        to_id == node_id(link[2])
        sv_link == SvLink(id, from_id, to_id)
        n1 == [sv_tree.nodes EXCEPT ![from_id].outputs = @ \cup {id}]
        n2 == [n1 EXCEPT ![to_id].inputs = @ \cup {id}]
    IN  [sv_tree EXCEPT !.nodes = n2,
                        !.links = MapPut(@, <<Cardinality(DOMAIN sv_tree.links)>>, sv_link)]

\* LinksCollection.add
LinksCollection_add(sv_tree, link) ==
    LET id == link_id(link)
        from_id == node_id(link[1])
        to_id == node_id(link[2])
        sv_link == SvLink(id, from_id, to_id)
        n1 == [sv_tree.nodes EXCEPT ![from_id].outputs = @ \cup {id}]
        n2 == [n1 EXCEPT ![to_id].inputs = @ \cup {id}]
    IN  [sv_tree EXCEPT !.nodes = n2, !.links = MapPut(@, id, sv_link)]

RECURSIVE AddNodes(_, _)
AddNodes(sv_tree, nodes) ==
    IF nodes = {} THEN sv_tree
    ELSE LET n == CHOOSE x \in nodes : TRUE
         IN  AddNodes(NodesCollection_add(sv_tree, n), nodes \ {n})

RECURSIVE AddLinks(_, _)
AddLinks(sv_tree, links) ==
    IF links = {} THEN sv_tree
    ELSE LET l == CHOOSE x \in links : TRUE
         IN  AddLinks(LinksCollection_add(sv_tree, l), links \ {l})

\* SvTree.get_blender_tree finds the tree, or raises LookupError.
get_blender_tree_found(bl_tree) == bl_tree.exists

total_reconstruction_FromScratch(sv_tree, bl_tree) ==
    AddLinks(AddNodes(SvTree(sv_tree.id), bl_tree.nodes), bl_tree.links)

\* SvTree.total_reconstruction, given the tree get_blender_tree returned
total_reconstruction(sv_tree, bl_tree) ==
    AddLinks(AddNodes(sv_tree, bl_tree.nodes), bl_tree.links)

need_total_reconstruction_WhenEmpty(sv_tree) == Cardinality(DOMAIN sv_tree.nodes) = 0

\* SvTree.need_total_reconstruction: bool(len(self.nodes))
need_total_reconstruction(sv_tree) == Cardinality(DOMAIN sv_tree.nodes) # 0

check_reconstruction_correctness_NodesOnly(sv_tree, bl_tree) ==
    LET bl_nodes == {node_id(n) : n \in bl_tree.nodes}
    IN  IF bl_nodes = DOMAIN sv_tree.nodes
        THEN "Reconstruction is correct"
        ELSE "!!! Reconstruction does not correct !!!"

\* SvTree.check_reconstruction_correctness: what it prints
check_reconstruction_correctness(sv_tree, bl_tree) ==
    LET bl_links == {link_id(l) : l \in bl_tree.links}
        bl_nodes == {node_id(n) : n \in bl_tree.nodes}
    IN  IF bl_links = DOMAIN sv_tree.links /\ bl_nodes = DOMAIN sv_tree.nodes
        THEN "Reconstruction is correct"
        ELSE "!!! Reconstruction does not correct !!!"

update_reconstruction_RaiseOnDrift(sv_tree, bl_tree, is_in_debug_mode) ==
    LET need == need_total_reconstruction(sv_tree)
    IN  IF need /\ ~get_blender_tree_found(bl_tree)
        THEN [tree |-> sv_tree, printed |-> None, raised |-> "LookupError"]
        ELSE LET t1 == IF need THEN total_reconstruction(sv_tree, bl_tree) ELSE sv_tree
             IN  IF ~is_in_debug_mode
                 THEN [tree |-> t1, printed |-> None, raised |-> None]
                 ELSE IF ~get_blender_tree_found(bl_tree)
                 THEN [tree |-> t1, printed |-> None, raised |-> "LookupError"]
                 ELSE [tree |-> t1,
                       printed |-> check_reconstruction_correctness(t1, bl_tree),
                       raised |-> IF check_reconstruction_correctness(t1, bl_tree)
                                       = "Reconstruction is correct"
                                  THEN None ELSE "AssertionError"]

\* SvTree.update_reconstruction: the tree afterwards, what was printed and
\* the exception that left the method (None when it returned).
update_reconstruction(sv_tree, bl_tree, is_in_debug_mode) ==
    LET need == need_total_reconstruction(sv_tree)
    IN  IF need /\ ~get_blender_tree_found(bl_tree)
        THEN [tree |-> sv_tree, printed |-> None, raised |-> "LookupError"]
        ELSE LET t1 == IF need THEN total_reconstruction(sv_tree, bl_tree) ELSE sv_tree
             IN  IF ~is_in_debug_mode
                 THEN [tree |-> t1, printed |-> None, raised |-> None]
                 ELSE IF ~get_blender_tree_found(bl_tree)
                 THEN [tree |-> t1, printed |-> None, raised |-> "LookupError"]
                 ELSE [tree |-> t1,
                       printed |-> check_reconstruction_correctness(t1, bl_tree),
                       raised |-> None]

\* --------------------------------------------- NodeTreesReconstruction

\* NodeTreesReconstruction.get_node_tree_reconstruction: the registry with
\* the reconstruction of the tree created on first reference.
get_node_tree_reconstruction(registry, tree_id) ==
    IF tree_id \in DOMAIN registry THEN registry
    ELSE MapPut(registry, tree_id, SvTree(tree_id))

\* ------------------------------------------------- classification

\* SverchokEvent(type, tree, node, link)
SverchokEvent(type, tree, node, link) ==
    [type |-> type, tree |-> tree, node |-> node, link |-> link,
     update_function |-> None, function_arguments |-> <<>>]

RECURSIVE SetToSeq(_)
SetToSeq(S) ==
    IF S = {} THEN <<>>
    ELSE LET x == CHOOSE y \in S : TRUE IN <<x>> \o SetToSeq(S \ {x})

EventsWaveFlags ==
    [links_was_added |-> FALSE, links_was_removed |-> FALSE,
     reroutes_was_added |-> FALSE, reroutes_was_removed |-> FALSE]

\* EventsWave.analyze_changes: the flags of the wave afterwards. The method
\* binds its comparisons to local names, the attributes are not assigned.
analyze_changes(wave, flags, previous_tree, current_tree) == flags

\* EventsWave.convert_known_events: the events found by comparing the
\* host's tree with its reconstruction.
convert_known_events(wave, previous_tree, current_tree) ==
    LET tree == wave[1].tree
        live_nodes == {node_id(n) : n \in current_tree.nodes}
        live_links == {link_id(l) : l \in current_tree.links}
        old_nodes == DOMAIN previous_tree.nodes
        old_links == DOMAIN previous_tree.links
        new_nodes == SetToSeq(live_nodes \ old_nodes)
        free_nodes == SetToSeq(old_nodes \ live_nodes)
        new_links == SetToSeq(live_links \ old_links)
        free_links == SetToSeq(old_links \ live_links)
    IN  [i \in 1..Len(new_nodes) |-> SverchokEvent("add_node", tree, new_nodes[i], None)]
        \o [i \in 1..Len(free_nodes) |-> SverchokEvent("free_node", tree, free_nodes[i], None)]
        \o [i \in 1..Len(new_links) |->
                SverchokEvent("node_link_update", tree, None, new_links[i])]
        \o [i \in 1..Len(free_links) |->
                SverchokEvent("node_link_update", tree, None, free_links[i])]

tree_was_changed_ByFirstEvent(wave) ==
    wave[1].type = "tree_update" \/ wave[1].type = "monad_tree_update"

tree_was_changed_TreeUpdateOnly(wave) ==
    wave[Len(wave)].type = "tree_update"

\* tree_was_changed of convert_to_sverchok_events
tree_was_changed(wave) ==
    wave[Len(wave)].type = "tree_update" \/ wave[Len(wave)].type = "monad_tree_update"

convert_to_sverchok_events_Reversed(wave, previous_tree, current_tree) ==
    IF ~is_end(wave) THEN [raised |-> "RuntimeError", events |-> <<>>]
    ELSE IF tree_was_changed(wave)
    THEN [raised |-> None, events |-> convert_known_events(wave, previous_tree, current_tree)]
    ELSE [raised |-> None,
          events |-> [i \in 1..Len(wave) |-> convert_to_sverchok_event(wave[Len(wave) + 1 - i])]]

\* EventsWave.convert_to_sverchok_events: the events returned, or the
\* exception raised.
convert_to_sverchok_events(wave, previous_tree, current_tree) ==
    IF ~is_end(wave) THEN [raised |-> "RuntimeError", events |-> <<>>]
    ELSE IF tree_was_changed(wave)
    THEN [raised |-> None, events |-> convert_known_events(wave, previous_tree, current_tree)]
    ELSE [raised |-> None, events |-> [i \in 1..Len(wave) |-> convert_to_sverchok_event(wave[i])]]

\* ------------------------------------------------- CurrentEvents

RECURSIVE SelectNodes(_)
SelectNodes(sverchok_events) ==
    IF sverchok_events = <<>> THEN <<>>
    ELSE LET ev == Head(sverchok_events)
         IN  (IF ev.type # "free_node" THEN <<ev.node>> ELSE <<>>)
             \o SelectNodes(Tail(sverchok_events))

update_nodes_KeepFree(sverchok_events) ==
    [i \in 1..Len(sverchok_events) |-> sverchok_events[i].node]

\* CurrentEvents.update_nodes: the list passed to process_from_nodes
update_nodes(sverchok_events) == SelectNodes(sverchok_events)

handle_new_event_calls_UpdateFirst == <<"update_nodes", "redraw_nodes">>

\* The calls handle_new_event makes once the reconstruction is updated.
handle_new_event_calls == <<"redraw_nodes", "update_nodes">>

\* ------------------------------------------------------------ state

VARIABLES
    events_wave,            \* CurrentEvents.events_wave.events_wave
    wave_flags,             \* the four *_was_added / *_was_removed attributes of the wave
    to_listen_new_events,   \* CurrentEvents._to_listen_new_events
    node_trees,             \* NodeTreesReconstruction.node_trees: tree_id -> SvTree
    bl_trees,               \* bpy.data.node_groups: tree_id -> the host's tree
    debug_mode,             \* is_in_debug_mode()
    pc,                     \* where the running handle_new_event stands
    ph,                     \* index into handle_new_event_calls of the running call
    ri,                     \* index of the event redraw_nodes is at
    handled,                \* the wave the running (or last) handle_new_event took
    sv_events,              \* local sv_events of handle_new_event
    steps,                  \* the steps of the running (or last) dispatch, in order
    redrawn,                \* indices of sv_events whose redraw_node ran, in order
    invoked,                \* update functions called: <<function, arguments>>
    processed,              \* argument lists process_from_nodes was called with
    raised,                 \* exception that left the last add_new_event, or None
    printed,                \* what check_reconstruction_correctness printed
    outcome                 \* what the last add_new_event call did with its event

core_vars == <<events_wave, wave_flags, to_listen_new_events, node_trees, bl_trees,
               debug_mode, pc, ph, ri, handled, sv_events, steps, redrawn, invoked,
               processed, raised, printed, outcome>>

\* ------------------------------------------- utils/handling_nodes.py

\* Layers the inputs of a node hold at most (max_layers_number).
MaxLayers == 2

\* layer_number before the first run: None
NoLayer == -1

\* A node without input sockets: max([]) in layers_iterator
NoInputs == -1

\* Attribute names assigned on node.outputs.
SocketKeys == {"verts", "note"}

\* The sockets declared when the node class is created: they have a socket
\* of the Blender node.
DeclaredSockets == {"verts"}

\* Data a process method assigns to an output socket.
Data == {"a", "b"}

\* An instance of SocketProperties, as a value that is assigned.
SocketProperties == "SocketProperties"

\* The empty list the layers of a socket are padded with.
EmptyLayer == "[]"

VARIABLES
    is_in_process,          \* WrapNode.is_in_process
    layer_number,           \* WrapNode.layer_number
    bl_node,                \* WrapNode.bl_node
    sockets,                \* the keys of NodeOutputs.sockets
    socket_data,            \* NodeOutputs.socket_data: socket name -> list of layers
    attributes,             \* the normal attributes set on NodeOutputs
    wpc,                    \* where the wrapper of process is: "outside" or "process"
    max_layers_number,      \* the range of layers_iterator in the current run
    wrap_raised             \* exception that left the last call, or None

wrap_vars == <<is_in_process, layer_number, bl_node, sockets, socket_data, attributes,
               wpc, max_layers_number, wrap_raised>>

vars == <<core_vars, wrap_vars>>

\* WrapNode.__init__, NodeOutputs.__init__ and the sockets of the class
WrapNodeInit ==
    /\ is_in_process = FALSE
    /\ layer_number = NoLayer
    /\ bl_node = None
    /\ sockets = DeclaredSockets
    /\ socket_data = EmptyMap
    /\ attributes = EmptyMap
    /\ wpc = "outside"
    /\ max_layers_number = 0
    /\ wrap_raised = None

\* NodeOutputs.clear
NodeOutputs_clear(data) == EmptyMap

\* self.socket_data[name] of a defaultdict(list): the list, created when missing
socket_data_item(data, name) == IF name \in DOMAIN data THEN data[name] ELSE <<>>

RECURSIVE PadLayers(_, _)
PadLayers(layers, layer) ==
    IF Len(layers) <= layer THEN PadLayers(Append(layers, EmptyLayer), layer) ELSE layers

add_socket_data_Appending(data, socket_name, value, layer) ==
    MapPut(data, socket_name, Append(socket_data_item(data, socket_name), value))

\* NodeOutputs._add_socket_data, once is_in_process was tested
add_socket_data(data, socket_name, value, layer) ==
    LET padded == PadLayers(socket_data_item(data, socket_name), layer)
    IN  MapPut(data, socket_name, [padded EXCEPT ![layer + 1] = value])

\* NodeOutputs.set_data_to_bl_sockets: reading socket_data[name] for the
\* sockets of the Blender node creates the missing lists.
set_data_to_bl_sockets(data) ==
    [name \in (DOMAIN data) \cup DeclaredSockets |-> socket_data_item(data, name)]

read_socket_data_WithoutFinally(exception) == exception # None

\* WrapNode.read_socket_data, finally: is_in_process when the block is left
read_socket_data_finally(exception) == FALSE

\* node.process(): the wrapper of decorate_process_method, up to the first
\* call of the process method of the class or to its end.
WrapperCall(has_required_data, layers) ==
    /\ wpc = "outside"
    /\ UNCHANGED core_vars
    /\ UNCHANGED <<sockets, attributes>>
    /\ IF ~has_required_data
       THEN \* pass_data
            /\ wrap_raised' = None
            /\ UNCHANGED <<is_in_process, layer_number, bl_node, socket_data, wpc,
                           max_layers_number>>
       ELSE /\ bl_node' = "node"
            /\ IF layers = NoInputs
               THEN /\ socket_data' = NodeOutputs_clear(socket_data)
                    /\ is_in_process' = read_socket_data_finally("ValueError")
                    /\ wrap_raised' = "ValueError"
                    /\ UNCHANGED <<layer_number, wpc, max_layers_number>>
               ELSE IF layers = 0
               THEN /\ socket_data' = set_data_to_bl_sockets(NodeOutputs_clear(socket_data))
                    /\ is_in_process' = read_socket_data_finally(None)
                    /\ wrap_raised' = None
                    /\ UNCHANGED <<layer_number, wpc, max_layers_number>>
               ELSE /\ socket_data' = NodeOutputs_clear(socket_data)
                    /\ is_in_process' = TRUE
                    /\ layer_number' = 0
                    /\ max_layers_number' = layers
                    /\ wpc' = "process"
                    /\ wrap_raised' = None

\* node.outputs.<key> = value: NodeOutputs.__setattr__
NodeOutputs_setattr(key, value) ==
    /\ UNCHANGED core_vars
    /\ UNCHANGED <<is_in_process, layer_number, bl_node, wpc, max_layers_number>>
    /\ IF value = SocketProperties
       THEN /\ sockets' = sockets \cup {key}
            /\ wrap_raised' = None
            /\ UNCHANGED <<socket_data, attributes>>
       ELSE IF key \in sockets
       THEN IF ~is_in_process
            THEN /\ wrap_raised' = "RuntimeError"
                 /\ UNCHANGED <<sockets, socket_data, attributes>>
            ELSE /\ socket_data' = add_socket_data(socket_data, key, value, layer_number)
                 /\ wrap_raised' = None
                 /\ UNCHANGED <<sockets, attributes>>
       ELSE /\ attributes' = MapPut(attributes, key, value)
            /\ wrap_raised' = None
            /\ UNCHANGED <<sockets, socket_data>>

\* The process method of the class returns: the next layer, or the end of
\* the wrapper.
ProcessMethodReturn ==
    /\ wpc = "process"
    /\ UNCHANGED core_vars
    /\ UNCHANGED <<bl_node, sockets, attributes, max_layers_number>>
    /\ wrap_raised' = None
    /\ IF layer_number + 1 < max_layers_number
       THEN /\ layer_number' = layer_number + 1
            /\ UNCHANGED <<is_in_process, socket_data, wpc>>
       ELSE /\ socket_data' = set_data_to_bl_sockets(socket_data)
            /\ is_in_process' = read_socket_data_finally(None)
            /\ wpc' = "outside"
            /\ UNCHANGED layer_number

\* The process method of the class raises.
ProcessMethodRaise ==
    /\ wpc = "process"
    /\ UNCHANGED core_vars
    /\ UNCHANGED <<layer_number, bl_node, sockets, socket_data, attributes,
                   max_layers_number>>
    /\ is_in_process' = read_socket_data_finally("ProcessError")
    /\ wpc' = "outside"
    /\ wrap_raised' = "ProcessError"

\* ------------------------------------------------------ core/events.py

\* Events the host sends: some of each kind, about both trees.
HostEvents ==
    {BlenderEvent("add_node", TreeOf(n), n, None, <<>>) : n \in EventNodes}
    \cup {BlenderEvent("free_node", TreeOf("n3"), "n3", None, <<>>)}
    \cup {BlenderEvent(ty, TreeOf("n1"), "n1", None, <<>>) :
            ty \in {"copy_node", "add_link_to_node", "node_update"}}
    \cup {BlenderEvent("tree_update", t, None, None, <<>>) : t \in Trees}
    \cup {BlenderEvent(ty, "t1", None, None, <<>>) : ty \in {"monad_tree_update", "undo"}}
    \cup {BlenderEvent("frame_change", "t2", None, None, <<>>)}
    \cup {property_update("n1", f) : f \in {None, "f"}}
    \cup {property_update("n3", "f")}

\* Events sent from inside an update function or process_from_nodes.
NestedEvents ==
    {property_update(n, "g") : n \in EventNodes}
    \cup {BlenderEvent("tree_update", t, None, None, <<>>) : t \in Trees}

Init ==
    /\ WrapNodeInit
    /\ events_wave = <<>>
    /\ wave_flags = EventsWaveFlags
    /\ to_listen_new_events = TRUE
    /\ node_trees = EmptyMap
    /\ bl_trees \in {g \in [Trees -> UNION {LiveTrees(t) : t \in Trees}] :
                        \A t \in Trees : g[t] \in LiveTrees(t) /\ WellFormedTree(g[t])}
    /\ debug_mode \in BOOLEAN
    /\ pc = "idle"
    /\ ph = 0
    /\ ri = 0
    /\ handled = <<>>
    /\ sv_events = <<>>
    /\ steps = <<>>
    /\ redrawn = <<>>
    /\ invoked = <<>>
    /\ processed = <<>>
    /\ raised = None
    /\ printed = None
    /\ outcome = None

\* ------------------------------------------------- handle_new_event

listening_while_handling_Kept == TRUE

\* The value handle_new_event gives _to_listen_new_events before converting.
listening_while_handling == FALSE

\* The control state of handle_new_event, as a record.
Control ==
    [pc |-> pc, ph |-> ph, ri |-> ri, steps |-> steps, redrawn |-> redrawn,
     invoked |-> invoked, processed |-> processed,
     to_listen |-> to_listen_new_events, wave |-> events_wave, flags |-> wave_flags]

\* handle_new_event from the call at index c.ph on, until it is inside an
\* update function or process_from_nodes, or has returned.
RECURSIVE Continue(_, _)
Continue(c, sv) ==
    IF c.ph > Len(handle_new_event_calls)
    THEN \* _to_listen_new_events = True; events_wave = EventsWave()
         [c EXCEPT !.pc = "idle", !.ph = 0, !.ri = 0, !.to_listen = TRUE,
                   !.wave = <<>>, !.flags = EventsWaveFlags,
                   !.steps = @ \o <<"listen", "reset">>]
    ELSE IF handle_new_event_calls[c.ph] = "redraw_nodes"
    THEN IF c.ri = 0
         THEN Continue([c EXCEPT !.ri = 1, !.steps = Append(@, "redraw")], sv)
         ELSE IF c.ri > Len(sv)
         THEN Continue([c EXCEPT !.ph = @ + 1, !.ri = 0], sv)
         ELSE IF sv[c.ri].update_function = None
         THEN Continue([c EXCEPT !.ri = @ + 1, !.redrawn = Append(@, c.ri)], sv)
         ELSE [c EXCEPT !.pc = "callback",
                        !.redrawn = Append(@, c.ri),
                        !.invoked = Append(@, <<sv[c.ri].update_function,
                                                sv[c.ri].function_arguments>>)]
    ELSE [c EXCEPT !.pc = "process_from_nodes",
                   !.steps = Append(@, "update"),
                   !.processed = Append(@, update_nodes(sv))]

SetControl(c) ==
    /\ pc' = c.pc
    /\ ph' = c.ph
    /\ ri' = c.ri
    /\ steps' = c.steps
    /\ redrawn' = c.redrawn
    /\ invoked' = c.invoked
    /\ processed' = c.processed
    /\ to_listen_new_events' = c.to_listen
    /\ events_wave' = c.wave
    /\ wave_flags' = c.flags

\* An exception leaves handle_new_event: nothing after the raising statement runs.
Raise(c, exception) ==
    /\ SetControl([c EXCEPT !.pc = "idle", !.ph = 0, !.ri = 0])
    /\ raised' = exception

wave_tree_Fixed(wave) == "t1"

\* The tree of previous_tree and current_tree: self.events_wave[0].tree
wave_tree(wave) == wave[1].tree

\* handle_new_event on the wave `wave`, which has ended.
Dispatch(wave) ==
    LET tree_id == wave_tree(wave)
        registry == get_node_tree_reconstruction(node_trees, tree_id)
        previous_tree == registry[tree_id]
        current_tree == bl_trees[tree_id]
        converted == convert_to_sverchok_events(wave, previous_tree, current_tree)
        flags == IF tree_was_changed(wave)
                 THEN analyze_changes(wave, wave_flags, previous_tree, current_tree)
                 ELSE wave_flags
        updated == update_reconstruction(previous_tree, current_tree, debug_mode)
        c0 == [Control EXCEPT !.wave = wave, !.to_listen = listening_while_handling,
                              !.flags = flags,
                              !.steps = <<"suppress", "classify">>,
                              !.redrawn = <<>>, !.invoked = <<>>, !.processed = <<>>]
        c1 == [c0 EXCEPT !.steps = Append(@, "reconcile")]
    IN  /\ handled' = wave
        /\ IF converted.raised # None
           THEN /\ Raise(c0, converted.raised)
                /\ sv_events' = <<>>
                /\ printed' = None
                /\ node_trees' = registry
           ELSE /\ sv_events' = converted.events
                /\ printed' = updated.printed
                /\ node_trees' = [registry EXCEPT ![tree_id] = updated.tree]
                /\ IF updated.raised # None
                   THEN Raise(c1, updated.raised)
                   ELSE /\ SetControl(Continue([c1 EXCEPT !.ph = 1, !.ri = 0],
                                               converted.events))
                        /\ raised' = None

\* CurrentEvents.add_new_event called by the host.
AddNewEvent(bl_event) ==
    /\ UNCHANGED wrap_vars
    /\ pc = "idle"
    /\ Len(events_wave) < MaxWave
    /\ is_wave_end(bl_event) \/ Len(events_wave) + 1 < MaxWave
    /\ UNCHANGED <<bl_trees, debug_mode>>
    /\ IF ~to_listen_new_events
       THEN /\ raised' = None
            /\ outcome' = "dropped"
            /\ UNCHANGED <<events_wave, wave_flags, to_listen_new_events, node_trees,
                           pc, ph, ri, handled, sv_events, steps, redrawn, invoked,
                           processed, printed>>
       ELSE LET wave == add_event(events_wave, bl_event)
            IN  IF ~is_end(wave)
                THEN /\ events_wave' = wave
                     /\ outcome' = IF wave = events_wave THEN "filtered" ELSE "appended"
                     /\ raised' = None
                     /\ handled' = <<>>
                     /\ sv_events' = <<>>
                     /\ steps' = <<>>
                     /\ redrawn' = <<>>
                     /\ invoked' = <<>>
                     /\ processed' = <<>>
                     /\ printed' = None
                     /\ UNCHANGED <<wave_flags, to_listen_new_events, node_trees, pc, ph, ri>>
                ELSE /\ Dispatch(wave)
                     /\ outcome' = "dispatched"

\* CurrentEvents.add_new_event called while handle_new_event is inside an
\* update function or process_from_nodes.
NestedAddNewEvent(bl_event) ==
    /\ UNCHANGED wrap_vars
    /\ pc \in {"callback", "process_from_nodes"}
    /\ IF ~to_listen_new_events
       THEN /\ outcome' = IF pc = "callback" THEN "dropped_in_callback"
                                               ELSE "dropped_in_process_from_nodes"
            /\ UNCHANGED events_wave
       ELSE /\ outcome' = "nested_appended"
            /\ events_wave' = add_event(events_wave, bl_event)
    /\ UNCHANGED <<wave_flags, to_listen_new_events, node_trees, bl_trees, debug_mode,
                   pc, ph, ri, handled, sv_events, steps, redrawn, invoked, processed,
                   raised, printed>>

\* The update function called by redraw_node returns.
CallbackReturn ==
    /\ UNCHANGED wrap_vars
    /\ pc = "callback"
    /\ SetControl(Continue([Control EXCEPT !.ri = @ + 1], sv_events))
    /\ UNCHANGED <<node_trees, bl_trees, debug_mode, handled, sv_events, raised, printed,
                   outcome>>

\* The update function called by redraw_node raises.
CallbackRaise ==
    /\ UNCHANGED wrap_vars
    /\ pc = "callback"
    /\ Raise(Control, "CallbackError")
    /\ UNCHANGED <<node_trees, bl_trees, debug_mode, handled, sv_events, printed, outcome>>

\* process_from_nodes returns.
ProcessReturn ==
    /\ UNCHANGED wrap_vars
    /\ pc = "process_from_nodes"
    /\ SetControl(Continue([Control EXCEPT !.ph = @ + 1, !.ri = 0], sv_events))
    /\ UNCHANGED <<node_trees, bl_trees, debug_mode, handled, sv_events, raised, printed,
                   outcome>>

\* process_from_nodes raises.
ProcessRaise ==
    /\ UNCHANGED wrap_vars
    /\ pc = "process_from_nodes"
    /\ Raise(Control, "ProcessError")
    /\ UNCHANGED <<node_trees, bl_trees, debug_mode, handled, sv_events, printed, outcome>>

\* The user edits or removes a node tree.
HostEdit(t, g) ==
    /\ UNCHANGED wrap_vars
    /\ pc = "idle"
    /\ to_listen_new_events
    /\ g \in LiveTrees(t)
    /\ WellFormedTree(g)
    /\ g # bl_trees[t]
    /\ bl_trees' = [bl_trees EXCEPT ![t] = g]
    /\ UNCHANGED <<events_wave, wave_flags, to_listen_new_events, node_trees, debug_mode,
                   pc, ph, ri, handled, sv_events, steps, redrawn, invoked, processed,
                   raised, printed, outcome>>

Next ==
    \/ \E bl_event \in HostEvents : AddNewEvent(bl_event)
    \/ \E bl_event \in NestedEvents : NestedAddNewEvent(bl_event)
    \/ CallbackReturn
    \/ CallbackRaise
    \/ ProcessReturn
    \/ ProcessRaise
    \/ \E t \in Trees : \E g \in LiveTrees(t) : HostEdit(t, g)

Spec == Init /\ [][Next]_vars

\* ------------------------------------------------------------ claims

PipelineOrder ==
    <<"suppress", "classify", "reconcile", "redraw", "update", "listen", "reset">>

IsPrefix(a, b) == Len(a) <= Len(b) /\ \A i \in 1..Len(a) : a[i] = b[i]

LiveNodeIds(t) == {node_id(n) : n \in bl_trees[t].nodes}

LiveLinkIds(t) == {link_id(l) : l \in bl_trees[t].links}

\* The reconstruction of tree t holds exactly the identities of the host's tree.
ShadowMatches(t) ==
    /\ t \in DOMAIN node_trees
    /\ DOMAIN node_trees[t].nodes = LiveNodeIds(t)
    /\ DOMAIN node_trees[t].links = LiveLinkIds(t)

\* C1: whenever add_new_event has returned or raised, also after a step of
\* the dispatch raised, ingestion is enabled again and no later event is
\* dropped.
C1_ListeningAfterRaise ==
    pc = "idle" => (to_listen_new_events /\ outcome # "dropped")

\* C2: a call of add_new_event with a terminator runs the whole pipeline
\* exactly once and leaves the current wave empty.
C2_OneCycleThenEmptyWave ==
    (pc = "idle" /\ outcome = "dispatched") =>
        (steps = PipelineOrder /\ Len(processed) = 1 /\ events_wave = <<>>)

\* C3: an add_new_event call made from inside an update function during a
\* dispatch is dropped: it changes neither the wave nor anything else the
\* dispatch works on, its event never shows up in a wave, and when the
\* update function and process_from_nodes return the dispatch has listening
\* switched on again and a fresh empty wave installed.
C3_NestedCallDropped ==
    /\ [][(\E bl_event \in NestedEvents : NestedAddNewEvent(bl_event)) =>
            /\ outcome' \in {"dropped_in_callback", "dropped_in_process_from_nodes"}
            /\ UNCHANGED <<events_wave, wave_flags, to_listen_new_events, node_trees,
                           pc, ph, ri, sv_events>>]_vars
    /\ [](\A i \in 1..Len(events_wave) : events_wave[i].update_function # "g")
    /\ []((pc = "idle" /\ outcome = "dropped_in_callback" /\ raised = None) =>
            (to_listen_new_events /\ events_wave = <<>> /\ steps = PipelineOrder))

C3_Witness ==
    /\ pc = "idle"
    /\ outcome = "dropped_in_callback"
    /\ Len(invoked) = 1
    /\ to_listen_new_events
    /\ events_wave = <<>>

\* C4: once update_reconstruction has run for a tree of the host whose
\* reconstruction was empty, the reconstruction holds exactly the node and
\* link identities of that tree.
C4_EmptyShadowRebuilt ==
    (pc # "idle" /\ bl_trees[handled[1].tree].exists) => ShadowMatches(handled[1].tree)

\* C5: after a completed dispatch the reconstruction of every tree that has
\* an event in the dispatched wave equals the host's tree.
C5_ShadowEqualsLiveAfterDispatch ==
    (pc = "idle" /\ outcome = "dispatched" /\ steps = PipelineOrder) =>
        \A i \in 1..Len(handled) : ShadowMatches(handled[i].tree)

\* C7: add_new_event with a node_update event never changes the events of
\* the wave, whatever the wave holds and wherever the call comes from.
C7_NodeUpdateKeepsWave ==
    [][(\E bl_event \in HostEvents \cup NestedEvents :
            /\ bl_event.type = "node_update"
            /\ AddNewEvent(bl_event) \/ NestedAddNewEvent(bl_event))
        => events_wave' = events_wave]_vars

C7_Witness ==
    /\ outcome = "filtered"
    /\ Len(events_wave) > 0
    /\ to_listen_new_events

\* C8: a wave is ended exactly when it is not empty and its last event is a
\* tree_update, monad_tree_update, undo, frame_change or
\* node_property_update; an add_node, copy_node, free_node or
\* add_link_to_node event that is appended leaves the wave not ended and
\* starts no dispatch.
C8_WaveEnd ==
    /\ [](is_end(events_wave) <=>
            /\ events_wave # <<>>
            /\ events_wave[Len(events_wave)].type \in
                 {"tree_update", "monad_tree_update", "undo", "frame_change",
                  "node_property_update"})
    /\ [][(\E bl_event \in HostEvents :
                /\ bl_event.type \in {"add_node", "copy_node", "free_node", "add_link_to_node"}
                /\ AddNewEvent(bl_event))
            => /\ outcome' \in {"appended", "dropped"}
               /\ outcome' = "appended" =>
                    (events_wave' # events_wave /\ ~is_end(events_wave') /\ steps' = <<>>)
               /\ pc' = "idle"
               /\ UNCHANGED <<to_listen_new_events, node_trees>>]_vars

C8_Witness ==
    /\ outcome = "appended"
    /\ Len(events_wave) = 2
    /\ events_wave[2].type = "add_link_to_node"
    /\ pc = "idle"
    /\ steps = <<>>

\* C9: the steps of a dispatch happen in the order suppress, classify,
\* reconcile, redraw, update (process_from_nodes), listen, reset, each at
\* most once; process_from_nodes is called at most once per wave, after the
\* reconciliation and after every event was redrawn; listening is off from
\* the first step to the sixth and the wave is replaced only at the end.
C9_PipelineInOrder ==
    /\ IsPrefix(steps, PipelineOrder)
    /\ Len(processed) <= 1
    /\ pc = "callback" =>
         (steps = SubSeq(PipelineOrder, 1, 4) /\ processed = <<>> /\ ~to_listen_new_events)
    /\ pc = "process_from_nodes" =>
         /\ steps = SubSeq(PipelineOrder, 1, 5)
         /\ Len(processed) = 1
         /\ redrawn = [i \in 1..Len(sv_events) |-> i]
         /\ ~to_listen_new_events
    /\ (Len(steps) \in 1..5) => (~to_listen_new_events /\ events_wave = handled)
    /\ Len(processed) = 1 => Len(steps) >= 5
    /\ steps = PipelineOrder => (to_listen_new_events /\ events_wave = <<>> /\ pc = "idle")

C9_Witness ==
    /\ steps = PipelineOrder
    /\ Len(invoked) = 1
    /\ Len(processed) = 1
    /\ Len(handled) = 3

C12_UndoAlone ==
    (Len(handled) = 1 /\ handled[1].type = "undo" /\ Len(steps) >= 5) =>
        /\ Len(sv_events) = 1
        /\ sv_events[1].type = "undo"
        /\ \A t \in DOMAIN node_trees :
              node_trees[t].nodes = EmptyMap /\ node_trees[t].links = EmptyMap
        /\ processed = << <<>> >>

\* C13: a node_property_update event with an update function ends the wave
\* when it is added; the redrawing calls the function once, with the
\* arguments (node, context) the event carries, and process_from_nodes gets
\* the node of the event (alone when the event is the whole wave).
C13_PropertyUpdateDispatch ==
    /\ (pc = "idle" /\ to_listen_new_events) =>
          \A i \in 1..Len(events_wave) : events_wave[i].type # "node_property_update"
    /\ (/\ handled # <<>>
        /\ handled[Len(handled)].type = "node_property_update"
        /\ handled[Len(handled)].update_function # None
        /\ Len(steps) >= 3) =>
          LET n == Len(handled)
              call == <<handled[n].update_function, <<handled[n].node, "context">> >>
          IN  /\ outcome \in {"dispatched", "dropped", "dropped_in_callback",
                              "dropped_in_process_from_nodes"}
              /\ sv_events[n].type = "node_property_update"
              /\ Len(steps) = 4 => (invoked = <<>> \/ invoked = <<call>>)
              /\ pc = "callback" => invoked = <<call>>
              /\ Len(steps) >= 5 =>
                    /\ invoked = <<call>>
                    /\ Len(processed) = 1
                    /\ processed[1][Len(processed[1])] = handled[n].node
                    /\ n = 1 => processed = << <<handled[n].node>> >>

C13_Witness ==
    /\ steps = PipelineOrder
    /\ handled = <<property_update("n1", "f")>>
    /\ invoked = << <<"f", <<"n1", "context">> >> >>
    /\ processed = << <<"n1">> >>
    /\ events_wave = <<>>

\* C14: the wave add_node(n1), add_link_to_node, tree_update gives the
\* Sverchok events [add_node(n1), node_link_update] in that order, leaves
\* the reconstruction of the tree holding n1 and the new link, and
\* process_from_nodes is called with [n1].
C14_AddNodeAndLink ==
    (/\ Len(handled) = 3
     /\ handled[1].type = "add_node"
     /\ handled[1].node = "n1"
     /\ handled[2].type = "add_link_to_node"
     /\ handled[3].type = "tree_update"
     /\ Len(steps) >= 5) =>
        /\ [i \in 1..Len(sv_events) |-> sv_events[i].type] = <<"add_node", "node_link_update">>
        /\ sv_events[1].node = "n1"
        /\ "n1" \in DOMAIN node_trees["t1"].nodes
        /\ DOMAIN node_trees["t1"].links # {}
        /\ processed = << <<"n1">> >>

\* C17: a wave dispatched for a tree the host no longer holds leaves
\* add_new_event with LookupError, whether the debug mode is on or off and
\* whatever the reconstruction holds.
C17_LookupErrorAlways ==
    [][\A bl_event \in HostEvents :
          (/\ AddNewEvent(bl_event)
           /\ outcome' = "dispatched"
           /\ ~bl_trees[handled'[1].tree].exists)
          => /\ raised' = "LookupError"
             /\ steps' = SubSeq(PipelineOrder, 1, 3)
             /\ pc' = "idle"]_vars

\* C18: the debug mode changes nothing but what is printed. The mode is
\* read in add_new_event, only to print, and in update_reconstruction; so
\* two runs fed the same events and the same host trees, one with the mode
\* on and one with it off, stay together as long as update_reconstruction
\* leaves the same reconstruction and raises the same exception in both.
C18_DebugOnlyPrints ==
    \A t \in Trees :
        LET registry == get_node_tree_reconstruction(node_trees, t)
            on == update_reconstruction(registry[t], bl_trees[t], TRUE)
            off == update_reconstruction(registry[t], bl_trees[t], FALSE)
        IN  /\ on.tree = off.tree
            /\ on.raised = off.raised

\* C21: once a wave ended by tree_update or monad_tree_update is
\* classified, its flags tell how the host's tree differs from the
\* reconstruction: links_was_added when the tree has more links,
\* links_was_removed when it has fewer, reroutes_was_added and
\* reroutes_was_removed likewise for the nodes.
C21_FlagsReflectDiff ==
    (/\ pc \in {"callback", "process_from_nodes"}
     /\ handled[Len(handled)].type \in {"tree_update", "monad_tree_update"}) =>
        LET t == handled[1].tree
            links == Cardinality(bl_trees[t].links) - Cardinality(DOMAIN node_trees[t].links)
            nodes == Cardinality(bl_trees[t].nodes) - Cardinality(DOMAIN node_trees[t].nodes)
        IN  /\ wave_flags.links_was_added = (links > 0)
            /\ wave_flags.links_was_removed = (links < 0)
            /\ wave_flags.reroutes_was_added = (nodes > 0)
            /\ wave_flags.reroutes_was_removed = (nodes < 0)

\* C22: listening is off during the whole of a dispatch, from before the
\* classification until process_from_nodes has returned, so an event sent
\* by an update function or by process_from_nodes is appended to no wave,
\* and the wave that is dispatched holds at the end of the dispatch the
\* events it held at the start.
C22_NoIngestionDuringDispatch ==
    /\ [](/\ pc \in {"callback", "process_from_nodes"} =>
                (~to_listen_new_events /\ events_wave = handled)
          /\ (Len(steps) \in 1..5) =>
                (~to_listen_new_events /\ events_wave = handled /\ is_end(events_wave))
          /\ outcome # "nested_appended")
    /\ [][(\E bl_event \in NestedEvents : NestedAddNewEvent(bl_event)) =>
              /\ events_wave' = events_wave
              /\ outcome' \in {"dropped_in_callback", "dropped_in_process_from_nodes"}
              /\ pc' = pc]_vars
    /\ [][(pc # "idle" /\ events_wave' # events_wave) =>
              (events_wave = handled /\ events_wave' = <<>> /\ steps' = PipelineOrder)]_vars

C22_Witness ==
    /\ outcome = "dropped_in_process_from_nodes"
    /\ steps = PipelineOrder
    /\ Len(handled) = 2
    /\ events_wave = <<>>
    /\ to_listen_new_events

\* C23: the registry of reconstructions and every reconstruction in it
\* change only inside a dispatch. A call of add_new_event that ends no wave
\* (an add_node, copy_node, free_node or add_link_to_node event, a filtered
\* node_update, an event dropped while listening is off, from the host or
\* from inside a dispatch) leaves them as they were.
C23_RegistryChangesOnlyInDispatch ==
    /\ [][\A bl_event \in HostEvents :
            (/\ AddNewEvent(bl_event)
             /\ \/ ~to_listen_new_events
                \/ bl_event.type \in {"add_node", "copy_node", "free_node",
                                      "add_link_to_node", "node_update"})
            => node_trees' = node_trees]_vars
    /\ [][(\E bl_event \in NestedEvents : NestedAddNewEvent(bl_event)) =>
            node_trees' = node_trees]_vars
    /\ [][node_trees' # node_trees =>
            /\ outcome' = "dispatched"
            /\ to_listen_new_events
            /\ Len(steps') >= 2
            /\ handled'[Len(handled')].type \in
                 {"tree_update", "monad_tree_update", "undo", "frame_change",
                  "node_property_update"}]_vars

C23_Witness ==
    /\ outcome = "filtered"
    /\ DOMAIN node_trees = {"t1", "t2"}
    /\ Len(events_wave) = 1
    /\ events_wave[1].type = "free_node"

\* C27: as long as only add_node, copy_node, free_node, add_link_to_node
\* and node_update events are sent, nothing is dispatched (no
\* classification, no reconciliation, no redraw, no process_from_nodes) and
\* the wave holds the events sent that are not node_update, in the order
\* sent: each such call adds one event to the end of the wave, a
\* node_update adds none, and nothing short of the end of a dispatch takes
\* an event out of a wave.
C27_NoTerminatorNoDispatch ==
    /\ [][\A bl_event \in HostEvents :
            (/\ AddNewEvent(bl_event)
             /\ to_listen_new_events
             /\ bl_event.type \in {"add_node", "copy_node", "free_node",
                                   "add_link_to_node", "node_update"})
            => /\ events_wave' = IF bl_event.type = "node_update" THEN events_wave
                                 ELSE events_wave \o <<bl_event>>
               /\ Len(events_wave') = Len(events_wave)
                                      + (IF bl_event.type = "node_update" THEN 0 ELSE 1)
               /\ steps' = <<>>
               /\ sv_events' = <<>>
               /\ redrawn' = <<>>
               /\ invoked' = <<>>
               /\ processed' = <<>>
               /\ pc' = "idle"
               /\ to_listen_new_events']_vars
    /\ [][Len(events_wave') < Len(events_wave) =>
            (steps' = PipelineOrder /\ events_wave' = <<>>)]_vars
    /\ [](steps # <<>> =>
            handled[Len(handled)].type \notin {"add_node", "copy_node", "free_node",
                                               "add_link_to_node", "node_update"})

C27_Witness ==
    /\ outcome = "appended"
    /\ Len(events_wave) = MaxWave - 1
    /\ \A i \in 1..Len(events_wave) : events_wave[i].type = "copy_node"
    /\ node_trees = EmptyMap
    /\ steps = <<>>
    /\ pc = "idle"

\* C29: whenever listening is on and no dispatch is running, the wave holds
\* no tree_update, monad_tree_update, undo, frame_change or
\* node_property_update event; so a wave that is dispatched holds exactly
\* one such event, its last, and a node_update, which is filtered before
\* the end of the wave is tested, starts no dispatch.
C29_NoTerminatorInOpenWave ==
    LET terminators == {"tree_update", "monad_tree_update", "undo", "frame_change",
                        "node_property_update"}
        ends(wave) == {i \in 1..Len(wave) : wave[i].type \in terminators}
    IN  /\ (pc = "idle" /\ to_listen_new_events) => ends(events_wave) = {}
        /\ handled # <<>> => ends(handled) = {Len(handled)}
        /\ outcome = "filtered" =>
              (steps = <<>> /\ handled = <<>> /\ processed = <<>> /\ pc = "idle")

C29_Witness ==
    /\ outcome = "filtered"
    /\ to_listen_new_events
    /\ pc = "idle"
    /\ Len(events_wave) = 1
    /\ events_wave[1].type = "add_link_to_node"
    /\ node_trees # EmptyMap
    /\ steps = <<>>

C32_AtMostOneUpdateFunction ==
    (/\ handled # <<>>
     /\ Len(steps) >= 3
     /\ handled[Len(handled)].type \notin {"tree_update", "monad_tree_update"}) =>
        LET n == Len(handled)
            with_function == {i \in 1..Len(sv_events) : sv_events[i].update_function # None}
        IN  /\ Len(invoked) <= 1
            /\ with_function \subseteq {n}
            /\ with_function # {} => handled[n].type = "node_property_update"
            /\ invoked # <<>> =>
                  /\ with_function = {n}
                  /\ invoked[1][1] = handled[n].update_function
                  /\ redrawn[Len(redrawn)] = n
            /\ Len(steps) >= 5 =>
                  /\ Len(redrawn) = n
                  /\ Len(invoked) = Cardinality(with_function)

C32_Witness ==
    /\ steps = PipelineOrder
    /\ Len(handled) = 3
    /\ handled[1].type = "copy_node"
    /\ handled[2].type = "add_link_to_node"
    /\ handled[3].type = "node_property_update"
    /\ handled[3].update_function = "f"
    /\ redrawn = <<1, 2, 3>>
    /\ Len(invoked) = 1

\* ------------------------------------- classification on its own

\* Trees of the host drawn for the classification: every tree over n1, n2.
ClassifyLinks == {<<"n1", "n2">>, <<"n2", "n1">>}

ClassifyTrees ==
    {g \in [exists : {TRUE}, nodes : SUBSET NodesOfTree("t1"), links : SUBSET ClassifyLinks] :
        WellFormedTree(g)}

RECURSIVE WavesUpTo(_)
WavesUpTo(n) ==
    IF n = 0 THEN {<<>>}
    ELSE LET shorter == WavesUpTo(n - 1)
         IN  shorter \cup
             {Append(w, e) : w \in shorter,
                             e \in {h \in HostEvents : h.tree = "t1" /\ ~is_wave_end(h)
                                                       /\ h.type # "node_update"}}

\* Ended waves about t1 of at most MaxWave events.
ClassifyWaves ==
    {Append(w, e) : w \in WavesUpTo(MaxWave - 1),
                    e \in {h \in HostEvents : h.tree = "t1" /\ is_wave_end(h)}}

\* An ended wave, the host's tree, and the reconstruction that
\* total_reconstruction made of an earlier state of the tree.
InitClassify ==
    /\ WrapNodeInit
    /\ events_wave \in ClassifyWaves
    /\ wave_flags = EventsWaveFlags
    /\ to_listen_new_events = FALSE
    /\ \E old \in ClassifyTrees :
          node_trees = MapPut(EmptyMap, "t1", total_reconstruction(SvTree("t1"), old))
    /\ \E new \in ClassifyTrees :
          bl_trees = [t \in Trees |-> IF t = "t1" THEN new
                                      ELSE [exists |-> TRUE, nodes |-> NodesOfTree(t),
                                            links |-> {}]]
    /\ debug_mode = FALSE
    /\ pc = "idle"
    /\ ph = 0
    /\ ri = 0
    /\ handled = <<>>
    /\ sv_events = <<>>
    /\ steps = <<>>
    /\ redrawn = <<>>
    /\ invoked = <<>>
    /\ processed = <<>>
    /\ raised = None
    /\ printed = None
    /\ outcome = None

\* sv_events = cls.events_wave.convert_to_sverchok_events()
Classify ==
    /\ UNCHANGED wrap_vars
    /\ steps = <<>>
    /\ LET tree_id == events_wave[1].tree
           converted == convert_to_sverchok_events(events_wave, node_trees[tree_id],
                                                   bl_trees[tree_id])
       IN  /\ sv_events' = converted.events
           /\ raised' = converted.raised
    /\ handled' = events_wave
    /\ steps' = <<"classify">>
    /\ UNCHANGED <<events_wave, wave_flags, to_listen_new_events, node_trees, bl_trees,
                   debug_mode, pc, ph, ri, redrawn, invoked, processed, printed, outcome>>

NextClassify == Classify

SpecClassify == InitClassify /\ [][NextClassify]_vars

C15_DiffPathByFirstEvent ==
    (steps = <<"classify">> /\ handled # <<>>) =>
        LET t == handled[1].tree
            diff == convert_known_events(handled, node_trees[t], bl_trees[t])
        IN  /\ raised = None
            /\ \A ty \in BlenderEventsTypes : EVENT_CONVERSION(ty) \in SverchokEventsTypes
            /\ IF handled[1].type \in {"tree_update", "monad_tree_update"}
               THEN sv_events = diff
               ELSE /\ Len(sv_events) = Len(handled)
                    /\ \A i \in 1..Len(handled) :
                          /\ sv_events[i].type = EVENT_CONVERSION(handled[i].type)
                          /\ sv_events[i].node = handled[i].node

\* C15, amended: the diff against the reconstruction is taken exactly when
\* the last event of the wave is tree_update or monad_tree_update; every
\* other ended wave gives one Sverchok event per Blender event, at the same
\* position, of the type EVENT_CONVERSION gives; no type fails to convert
\* (tree_update, monad_tree_update and node_update convert to undefined).
C15_DiffPathByLastEvent ==
    (steps = <<"classify">> /\ handled # <<>>) =>
        LET t == handled[1].tree
            n == Len(handled)
            diff == convert_known_events(handled, node_trees[t], bl_trees[t])
        IN  /\ raised = None
            /\ \A ty \in BlenderEventsTypes : EVENT_CONVERSION(ty) \in SverchokEventsTypes
            /\ {ty \in BlenderEventsTypes : EVENT_CONVERSION(ty) = "undefined"}
                 = {"tree_update", "monad_tree_update", "node_update"}
            /\ IF handled[n].type \in {"tree_update", "monad_tree_update"}
               THEN /\ sv_events = diff
                    /\ \A i \in 1..Len(sv_events) :
                          sv_events[i].type \in {"add_node", "free_node", "node_link_update"}
               ELSE /\ Len(sv_events) = n
                    /\ \A i \in 1..n :
                          /\ sv_events[i].type = EVENT_CONVERSION(handled[i].type)
                          /\ sv_events[i].type # "undefined"
                          /\ sv_events[i].tree = handled[i].tree
                          /\ sv_events[i].node = handled[i].node
                          /\ sv_events[i].link = handled[i].link

C15_Witness ==
    /\ steps = <<"classify">>
    /\ Len(handled) = 2
    /\ handled[1].type = "add_node"
    /\ handled[2].type = "monad_tree_update"
    /\ DOMAIN node_trees["t1"].nodes = {}
    /\ bl_trees["t1"].nodes = {"n1"}
    /\ Len(sv_events) = 1
    /\ sv_events[1].type = "add_node"
    /\ sv_events[1].node = "n1"

\* ------------------------- convert_to_sverchok_events called at any time

\* A wave about t1 of at most MaxWave events, ended or not, the host's
\* tree, and the reconstruction of an earlier state of the tree.
InitConvert ==
    /\ WrapNodeInit
    /\ events_wave \in WavesUpTo(MaxWave) \cup ClassifyWaves
    /\ wave_flags = EventsWaveFlags
    /\ to_listen_new_events \in BOOLEAN
    /\ \E old \in ClassifyTrees :
          node_trees = MapPut(EmptyMap, "t1", total_reconstruction(SvTree("t1"), old))
    /\ \E new \in ClassifyTrees :
          bl_trees = [t \in Trees |-> IF t = "t1" THEN new
                                      ELSE [exists |-> TRUE, nodes |-> NodesOfTree(t),
                                            links |-> {}]]
    /\ debug_mode = FALSE
    /\ pc = "idle"
    /\ ph = 0
    /\ ri = 0
    /\ handled = <<>>
    /\ sv_events = <<>>
    /\ steps = <<>>
    /\ redrawn = <<>>
    /\ invoked = <<>>
    /\ processed = <<>>
    /\ raised = None
    /\ printed = None
    /\ outcome = None

\* events_wave.convert_to_sverchok_events(), whatever the wave holds
Convert ==
    /\ UNCHANGED wrap_vars
    /\ steps = <<>>
    /\ LET converted == convert_to_sverchok_events(events_wave, node_trees["t1"],
                                                   bl_trees["t1"])
       IN  /\ sv_events' = converted.events
           /\ raised' = converted.raised
    /\ handled' = events_wave
    /\ steps' = <<"classify">>
    /\ UNCHANGED <<events_wave, wave_flags, to_listen_new_events, node_trees, bl_trees,
                   debug_mode, pc, ph, ri, redrawn, invoked, processed, printed, outcome>>

NextConvert == Convert

SpecConvert == InitConvert /\ [][NextConvert]_vars

\* C16: convert_to_sverchok_events called on a wave that is not ended (an
\* empty wave, or one whose last event is no terminator) raises
\* RuntimeError to its caller, returns no events, and leaves the events of
\* the wave and its flags as they were; on an ended wave it does not raise.
C16_NotEndedWaveRaises ==
    steps = <<"classify">> =>
        LET ended == /\ handled # <<>>
                     /\ handled[Len(handled)].type \in
                          {"tree_update", "monad_tree_update", "undo", "frame_change",
                           "node_property_update"}
        IN  /\ events_wave = handled
            /\ wave_flags = EventsWaveFlags
            /\ ended => raised = None
            /\ ~ended => (raised = "RuntimeError" /\ sv_events = <<>>)

C16_Witness ==
    /\ steps = <<"classify">>
    /\ Len(handled) = 2
    /\ handled[2].type = "add_link_to_node"
    /\ raised = "RuntimeError"
    /\ events_wave = handled

\* --------------------------- reconstructions that hold nodes and links

\* Calls of total_reconstruction made in a row on one state of the tree.
MaxRuns == 2

\* The host's t1 is any tree over n1 and n2, or removed; nothing is
\* reconstructed yet.
InitRecon ==
    /\ WrapNodeInit
    /\ events_wave = <<>>
    /\ wave_flags = EventsWaveFlags
    /\ to_listen_new_events = TRUE
    /\ node_trees = EmptyMap
    /\ \E g \in ClassifyTrees \cup {RemovedTree} :
          bl_trees = [t \in Trees |-> IF t = "t1" THEN g
                                      ELSE [exists |-> TRUE, nodes |-> NodesOfTree(t),
                                            links |-> {}]]
    /\ debug_mode \in BOOLEAN
    /\ pc = "idle"
    /\ ph = 0
    /\ ri = 0
    /\ handled = <<>>
    /\ sv_events = <<>>
    /\ steps = <<>>
    /\ redrawn = <<>>
    /\ invoked = <<>>
    /\ processed = <<>>
    /\ raised = None
    /\ printed = None
    /\ outcome = None

\* NodeTreesReconstruction.get_node_tree_reconstruction(t1).total_reconstruction()
TotalReconstructionCall ==
    /\ UNCHANGED wrap_vars
    /\ pc = "idle"
    /\ outcome = None
    /\ Len(steps) < MaxRuns
    /\ LET registry == get_node_tree_reconstruction(node_trees, "t1")
       IN  IF get_blender_tree_found(bl_trees["t1"])
           THEN /\ node_trees' = [registry EXCEPT
                                    !["t1"] = total_reconstruction(@, bl_trees["t1"])]
                /\ raised' = None
           ELSE /\ node_trees' = registry
                /\ raised' = "LookupError"
    /\ steps' = Append(steps, "total_reconstruction")
    /\ UNCHANGED <<events_wave, wave_flags, to_listen_new_events, bl_trees, debug_mode,
                   pc, ph, ri, handled, sv_events, redrawn, invoked, processed, printed,
                   outcome>>

\* The user edits or removes t1 before the event is sent.
HostEditRecon(g) ==
    /\ UNCHANGED wrap_vars
    /\ pc = "idle"
    /\ outcome = None
    /\ g \in ClassifyTrees \cup {RemovedTree}
    /\ g # bl_trees["t1"]
    /\ bl_trees' = [bl_trees EXCEPT !["t1"] = g]
    /\ steps' = <<>>
    /\ raised' = None
    /\ UNCHANGED <<events_wave, wave_flags, to_listen_new_events, node_trees, debug_mode,
                   pc, ph, ri, handled, sv_events, redrawn, invoked, processed, printed,
                   outcome>>

\* CurrentEvents.add_new_event called by the host with the one event sent.
DispatchTerminator(bl_event) ==
    /\ outcome = None
    /\ is_wave_end(bl_event)
    /\ AddNewEvent(bl_event)

\* One terminator is sent, and its dispatch runs.
NextRecon ==
    \/ TotalReconstructionCall
    \/ \E g \in ClassifyTrees \cup {RemovedTree} : HostEditRecon(g)
    \/ \E bl_event \in HostEvents : DispatchTerminator(bl_event)
    \/ \E bl_event \in NestedEvents : NestedAddNewEvent(bl_event)
    \/ CallbackReturn
    \/ CallbackRaise
    \/ ProcessReturn
    \/ ProcessRaise

SpecRecon == InitRecon /\ [][NextRecon]_vars

\* C19: in debug mode, when the reconstruction differs from the host's tree
\* after update_reconstruction, this is printed and nothing more: no
\* exception leaves the reconciliation, the dispatch goes on to the redraw
\* and, when no update function and no processing raises, to its end with
\* listening on and a new wave; the reconstruction is not repaired and no
\* later step of the dispatch changes it.
C19_DriftOnlyReported ==
    /\ [](printed = "!!! Reconstruction does not correct !!!" =>
            /\ debug_mode
            /\ raised \notin {"LookupError", "RuntimeError", "AssertionError"}
            /\ Len(steps) >= 4
            /\ ~ShadowMatches(handled[1].tree)
            /\ (pc = "idle" /\ raised = None) =>
                  /\ steps = PipelineOrder
                  /\ Len(processed) = 1
                  /\ to_listen_new_events
                  /\ events_wave = <<>>)
    /\ [][printed = "!!! Reconstruction does not correct !!!" => node_trees' = node_trees]_vars

C19_Witness ==
    /\ printed = "!!! Reconstruction does not correct !!!"
    /\ steps = PipelineOrder
    /\ raised = None
    /\ to_listen_new_events
    /\ events_wave = <<>>
    /\ handled[1].tree = "t1"
    /\ "t1" \in DOMAIN node_trees
    /\ DOMAIN node_trees["t1"].nodes = {"n1", "n2"}
    /\ bl_trees["t1"].nodes = {"n1"}

\* C20: total_reconstruction run a second time, on the reconstruction the
\* first run left and the same unmodified tree of the host, leaves the same
\* node keys and the same link keys as the first run did.
C20_TotalReconstructionIdempotent ==
    [][(TotalReconstructionCall /\ steps # <<>>) =>
          /\ DOMAIN node_trees'["t1"].nodes = DOMAIN node_trees["t1"].nodes
          /\ DOMAIN node_trees'["t1"].links = DOMAIN node_trees["t1"].links
          /\ raised' = raised]_vars

C20_Witness ==
    /\ steps = <<"total_reconstruction", "total_reconstruction">>
    /\ raised = None
    /\ outcome = None
    /\ bl_trees["t1"].nodes = {"n1", "n2"}
    /\ bl_trees["t1"].links = {<<"n1", "n2">>}
    /\ DOMAIN node_trees["t1"].nodes = {"n1", "n2"}
    /\ DOMAIN node_trees["t1"].links = {link_id(<<"n1", "n2">>), link_id(<<"n2", "n1">>)}

\* C24: a dispatch leaves the reconstruction of every tree that has no
\* event in the dispatched wave as it was, and creates none for it.
C24_OtherTreesUntouched ==
    [][\A bl_event \in HostEvents :
          (AddNewEvent(bl_event) /\ outcome' = "dispatched") =>
              \A t \in Trees \ {handled'[i].tree : i \in 1..Len(handled')} :
                  /\ (t \in DOMAIN node_trees') = (t \in DOMAIN node_trees)
                  /\ t \in DOMAIN node_trees => node_trees'[t] = node_trees[t]]_vars

C24_Witness ==
    /\ steps = PipelineOrder
    /\ Len(handled) = 1
    /\ handled[1].type = "frame_change"
    /\ handled[1].tree = "t2"
    /\ DOMAIN node_trees = {"t1", "t2"}
    /\ DOMAIN node_trees["t1"].nodes = {"n1", "n2"}
    /\ DOMAIN node_trees["t1"].links # {}
    /\ bl_trees["t1"].nodes = {"n1"}

\* C25: after total_reconstruction has run, on whatever the reconstruction
\* held before, its node keys are the node ids of the host's tree and its
\* link keys are the link ids of the host's tree; no key of something the
\* tree lacks remains.
C25_TotalReconstructionMirrorsLive ==
    (outcome = None /\ steps # <<>> /\ raised = None) =>
        /\ DOMAIN node_trees["t1"].nodes = LiveNodeIds("t1")
        /\ DOMAIN node_trees["t1"].links = LiveLinkIds("t1")

\* C26: in every reconstruction built by NodesCollection.add and
\* LinksCollection.add, a link id is a key of links exactly when it is a
\* key of the outputs of its from_node and of the inputs of its to_node,
\* both taken from the nodes of the tree.
C26_LinksAgreeWithNodeSockets ==
    \A t \in DOMAIN node_trees :
        LET sv_tree == node_trees[t]
        IN  /\ \A id \in DOMAIN sv_tree.links :
                  /\ sv_tree.links[id].from_node \in DOMAIN sv_tree.nodes
                  /\ sv_tree.links[id].to_node \in DOMAIN sv_tree.nodes
                  /\ id \in sv_tree.nodes[sv_tree.links[id].from_node].outputs
                  /\ id \in sv_tree.nodes[sv_tree.links[id].to_node].inputs
            /\ \A n \in DOMAIN sv_tree.nodes :
                  sv_tree.nodes[n].outputs \cup sv_tree.nodes[n].inputs
                      \subseteq DOMAIN sv_tree.links

\* C28: in debug mode, when the tree of the wave exists,
\* update_reconstruction prints "Reconstruction is correct" exactly when
\* the link ids of the host's tree (socket id of the from_socket followed
\* by the socket id of the to_socket) are the link keys of the
\* reconstruction and the node ids of the tree are its node keys; it prints
\* "!!! Reconstruction does not correct !!!" otherwise, and nothing when
\* the debug mode is off.
C28_CheckComparesKeySets ==
    (handled # <<>> /\ Len(steps) >= 3) =>
        LET t == handled[1].tree
            same_links == {socket_id(l[1], "out") \o socket_id(l[2], "in") :
                              l \in bl_trees[t].links} = DOMAIN node_trees[t].links
            same_nodes == bl_trees[t].nodes = DOMAIN node_trees[t].nodes
        IN  /\ (debug_mode /\ bl_trees[t].exists /\ raised # "LookupError") =>
                  printed = IF same_links /\ same_nodes
                            THEN "Reconstruction is correct"
                            ELSE "!!! Reconstruction does not correct !!!"
            /\ ~debug_mode => printed = None

C28_Witness ==
    /\ printed = "Reconstruction is correct"
    /\ debug_mode
    /\ handled[1].tree = "t1"
    /\ steps = PipelineOrder
    /\ bl_trees["t1"].links = {<<"n2", "n1">>}
    /\ DOMAIN node_trees["t1"].links = {link_id(<<"n2", "n1">>)}
    /\ DOMAIN node_trees["t1"].nodes = {"n1", "n2"}

\* C31: the node keys and the link keys of a reconstruction never get
\* fewer, and no reconstruction leaves the registry: no dispatch and no
\* call of total_reconstruction takes a key away, also when the host's
\* tree has lost the node or the link.
C31_KeysNeverShrink ==
    [][\A t \in DOMAIN node_trees :
          /\ t \in DOMAIN node_trees'
          /\ DOMAIN node_trees[t].nodes \subseteq DOMAIN node_trees'[t].nodes
          /\ DOMAIN node_trees[t].links \subseteq DOMAIN node_trees'[t].links]_vars

C31_Witness ==
    /\ outcome = None
    /\ steps = <<"total_reconstruction">>
    /\ raised = None
    /\ bl_trees["t1"].nodes = {"n2"}
    /\ bl_trees["t1"].links = {}
    /\ DOMAIN node_trees["t1"].nodes = {"n1", "n2"}
    /\ DOMAIN node_trees["t1"].links = {link_id(<<"n1", "n2">>)}

\* ------------------------------------- the wrapper of the process method

\* The core is at rest; the node is wrapped and not yet processed.
InitWrap ==
    /\ Init
    /\ ~debug_mode
    /\ bl_trees["t1"] = RemovedTree

NextWrap ==
    \/ \E has_required_data \in BOOLEAN : \E layers \in {NoInputs} \cup (0..MaxLayers) :
          WrapperCall(has_required_data, layers)
    \/ \E key \in SocketKeys : \E value \in Data \cup {SocketProperties} :
          NodeOutputs_setattr(key, value)
    \/ ProcessMethodReturn
    \/ ProcessMethodRaise

SpecWrap == InitWrap /\ [][NextWrap]_vars

\* C33: is_in_process is true only while the process method of the class
\* runs inside the wrapper, under read_socket_data; it is false when the
\* wrapper has returned and when the process method or layers_iterator
\* raised; when a run starts, socket_data is cleared.
C33_InProcessOnlyInsideWrapper ==
    /\ [](/\ is_in_process <=> wpc = "process"
          /\ is_in_process => (bl_node # None /\ layer_number \in 0..(max_layers_number - 1))
          /\ wrap_raised \in {"ProcessError", "ValueError"} => ~is_in_process)
    /\ [][(~is_in_process /\ is_in_process') =>
            (socket_data' = EmptyMap /\ layer_number' = 0)]_vars
    /\ [][(\E layers \in {NoInputs} \cup (0..MaxLayers) : WrapperCall(TRUE, layers)) =>
            \A name \in DOMAIN socket_data' : socket_data'[name] = <<>>]_vars
    /\ [][(ProcessMethodRaise \/ ProcessMethodReturn) =>
            (~is_in_process' \/ layer_number' = layer_number + 1)]_vars

C33_Witness ==
    /\ wrap_raised = "ProcessError"
    /\ ~is_in_process
    /\ wpc = "outside"
    /\ layer_number = 1
    /\ "verts" \in DOMAIN socket_data
    /\ socket_data["verts"] = <<"a", "b">>

\* C34: node.outputs.<socket> = data outside the process method raises
\* RuntimeError and leaves socket_data as it was; inside the process method
\* it puts the data at the index of the current layer of the socket's list,
\* after filling the list up to that index with empty lists, and replaces
\* what was at that index; the other layers and sockets stay as they were.
C34_OutputAssignment ==
    [][\A key \in SocketKeys : \A value \in Data :
          (NodeOutputs_setattr(key, value) /\ key \in sockets) =>
              IF ~is_in_process
              THEN /\ wrap_raised' = "RuntimeError"
                   /\ socket_data' = socket_data
              ELSE LET old == IF key \in DOMAIN socket_data THEN socket_data[key] ELSE <<>>
                       new == socket_data'[key]
                       k == layer_number + 1
                   IN  /\ wrap_raised' = None
                       /\ DOMAIN socket_data' = (DOMAIN socket_data) \cup {key}
                       /\ Len(new) = IF Len(old) > k THEN Len(old) ELSE k
                       /\ new[k] = value
                       /\ \A i \in (1..Len(new)) \ {k} :
                             new[i] = IF i <= Len(old) THEN old[i] ELSE "[]"
                       /\ \A other \in (DOMAIN socket_data) \ {key} :
                             socket_data'[other] = socket_data[other]]_vars

C34_Witness ==
    /\ is_in_process
    /\ layer_number = 1
    /\ wrap_raised = None
    /\ "verts" \in DOMAIN socket_data
    /\ socket_data["verts"] = <<"[]", "b">>
    /\ "note" \in sockets

====
